---- MODULE Spec2Model ----
(***************************************************************************)
(* Model of the dealer-inventory crawler of app-csv.js: inventory-page     *)
(* discovery (findInventoryPage), listing extraction                       *)
(* (scrapeVehicleInventory, extractVehicleData, cleanText), the catalog    *)
(* writer (saveVehiclesToCSV, escapeCSV) and the crawl orchestrator        *)
(* (scrapeAllDealers) with its two HTTP handlers.                          *)
(*                                                                         *)
(* JavaScript strings are TLA+ strings; TLC evaluates Len, \o, SubSeq and  *)
(* Tail on them, so substring tests and character filters are computed.    *)
(*                                                                         *)
(* Node runs one callback at a time: the code between two awaits is one    *)
(* atomic step.  Every action below is one such run-to-next-await segment. *)
(***************************************************************************)
EXTENDS Naturals, Integers, Sequences, FiniteSets, TLC

VARIABLES
  dealersDatabase,     \* app-csv.js:11  roster loaded by loadCSV
  scrapingInProgress,  \* app-csv.js:12
  lastScrapeResults,   \* app-csv.js:13
  stock,               \* content of stock.csv, or NoFile
  run,                 \* the invocations of scrapeAllDealers, by slot
  openBrowsers,        \* puppeteer sessions launched and not closed
  lastResponse,        \* response to the last POST /scrape/start, until its client has it
  probe,               \* the arguments of a function applied on its own (NoProbe in a crawl)
  answer               \* <<value>> once the function has returned, <<>> before

vars == <<dealersDatabase, scrapingInProgress, lastScrapeResults, stock, run,
          openBrowsers, lastResponse, probe, answer>>

-----------------------------------------------------------------------------
(* Bounds of the model *)

MaxRoster == 2
MaxRuns == 2

-----------------------------------------------------------------------------
(* Strings *)

Char(s, k) == SubSeq(s, k, k)

Digits == {"0", "1", "2", "3", "4", "5", "6", "7", "8", "9"}

Letters == {"a", "b", "c", "d", "e", "f", "g", "h", "i", "j", "k", "l", "m",
            "n", "o", "p", "q", "r", "s", "t", "u", "v", "w", "x", "y", "z",
            "A", "B", "C", "D", "E", "F", "G", "H", "I", "J", "K", "L", "M",
            "N", "O", "P", "Q", "R", "S", "T", "U", "V", "W", "X", "Y", "Z"}

\* \w of a JavaScript regular expression
WordChars == Letters \cup Digits \cup {"_"}

\* \s of a JavaScript regular expression (the members the inputs use)
Whitespace == {" ", "\n", "\t", "\r"}

\* String.prototype.includes
Includes(s, sub) ==
  \E k \in 0..(Len(s) - Len(sub)) : SubSeq(s, k + 1, k + Len(sub)) = sub

\* String.prototype.startsWith
StartsWith(s, pre) == Len(s) >= Len(pre) /\ SubSeq(s, 1, Len(pre)) = pre

\* String.prototype.substring(0, n)
Substring0(s, n) == IF Len(s) <= n THEN s ELSE SubSeq(s, 1, n)

LowerOf(c) ==
  CASE c = "A" -> "a" [] c = "B" -> "b" [] c = "C" -> "c" [] c = "D" -> "d"
    [] c = "E" -> "e" [] c = "F" -> "f" [] c = "G" -> "g" [] c = "H" -> "h"
    [] c = "I" -> "i" [] c = "J" -> "j" [] c = "K" -> "k" [] c = "L" -> "l"
    [] c = "M" -> "m" [] c = "N" -> "n" [] c = "O" -> "o" [] c = "P" -> "p"
    [] c = "Q" -> "q" [] c = "R" -> "r" [] c = "S" -> "s" [] c = "T" -> "t"
    [] c = "U" -> "u" [] c = "V" -> "v" [] c = "W" -> "w" [] c = "X" -> "x"
    [] c = "Y" -> "y" [] c = "Z" -> "z" [] OTHER -> c

\* String.prototype.toLowerCase
RECURSIVE ToLowerCase(_)
ToLowerCase(s) ==
  IF s = "" THEN "" ELSE LowerOf(Char(s, 1)) \o ToLowerCase(Tail(s))

RECURSIVE TrimStart(_)
TrimStart(s) ==
  IF s = "" THEN ""
  ELSE IF Char(s, 1) \in Whitespace THEN TrimStart(Tail(s)) ELSE s

RECURSIVE TrimEnd(_)
TrimEnd(s) ==
  IF s = "" THEN ""
  ELSE IF Char(s, Len(s)) \in Whitespace
       THEN TrimEnd(SubSeq(s, 1, Len(s) - 1))
       ELSE s

\* String.prototype.trim
Trim(s) == TrimEnd(TrimStart(s))

\* s.replace(/[^...]/g, ''): keep the characters of `allowed`
RECURSIVE KeepChars(_, _)
KeepChars(s, allowed) ==
  IF s = "" THEN ""
  ELSE (IF Char(s, 1) \in allowed THEN Char(s, 1) ELSE "")
         \o KeepChars(Tail(s), allowed)

\* s.replace(/\s+/g, ' ')
RECURSIVE CollapseWhitespace(_)
CollapseWhitespace(s) ==
  IF s = "" THEN ""
  ELSE IF Char(s, 1) \in Whitespace
       THEN " " \o CollapseWhitespace(TrimStart(s))
       ELSE Char(s, 1) \o CollapseWhitespace(Tail(s))

\* s.match(/20\d{2}/): the first match, or "" for null
MatchYear(s) ==
  LET hits == {k \in 1..(Len(s) - 3) :
                 /\ SubSeq(s, k, k + 1) = "20"
                 /\ Char(s, k + 2) \in Digits
                 /\ Char(s, k + 3) \in Digits}
  IN IF hits = {} THEN ""
     ELSE LET k == CHOOSE h \in hits : \A g \in hits : h <= g
          IN SubSeq(s, k, k + 3)

RECURSIVE JoinWith(_, _)
\* Array.prototype.join
JoinWith(seq, sep) ==
  IF seq = <<>> THEN ""
  ELSE IF Len(seq) = 1 THEN seq[1]
  ELSE seq[1] \o sep \o JoinWith(Tail(seq), sep)

Min(a, b) == IF a <= b THEN a ELSE b

-----------------------------------------------------------------------------
(* PatternTable *)

INVENTORY_PATTERNS ==
  << [path |-> "/new-vehicles",  keywords |-> <<"new", "inventory", "vehicles">>, score |-> 10],
     [path |-> "/inventory/new", keywords |-> <<"new", "inventory">>,             score |-> 9],
     [path |-> "/new-inventory", keywords |-> <<"new", "inventory">>,             score |-> 9],
     [path |-> "/vehicles/new",  keywords |-> <<"vehicles", "new">>,              score |-> 8],
     [path |-> "/new",           keywords |-> <<"new">>,                          score |-> 6],
     [path |-> "/inventory",     keywords |-> <<"inventory">>,                    score |-> 7],
     [path |-> "/showroom",      keywords |-> <<"showroom", "new">>,              score |-> 5],
     [path |-> "/browse",        keywords |-> <<"browse", "vehicles">>,           score |-> 4] >>

ContainerSelectors ==
  << ".vehicle-card", ".inventory-item", ".car-item", ".vehicle-listing",
     ".product-item", ".vehicle-tile", ".inventory-card", "[data-vehicle]",
     ".vehicle", ".car", ".auto", ".listing" >>

\* VEHICLE_SELECTORS without its container entry, in Object.entries order
FieldNames == << "make", "model", "year", "price", "stock", "trim" >>

FieldSelectors(field) ==
  CASE field = "make"  -> << ".make", ".vehicle-make", "[data-make]", ".manufacturer",
                             "h2", "h3", ".title", ".vehicle-title", ".brand" >>
    [] field = "model" -> << ".model", ".vehicle-model", "[data-model]", ".vehicle-name",
                             ".car-model", ".product-name", ".vehicle-title" >>
    [] field = "year"  -> << ".year", ".vehicle-year", "[data-year]", ".model-year" >>
    [] field = "price" -> << ".price", ".vehicle-price", "[data-price]", ".cost", ".msrp",
                             ".pricing", ".amount", ".currency", ".vehicle-cost" >>
    [] field = "stock" -> << ".stock", ".vin", "[data-vin]", ".vehicle-id", ".stock-number",
                             ".stock-no", ".inventory-id" >>
    [] field = "trim"  -> << ".trim", ".vehicle-trim", "[data-trim]", ".grade", ".variant",
                             ".package", ".level" >>

\* cap on the containers processed for one container selector
MaxVehicles == 20

-----------------------------------------------------------------------------
(* PageDiscovery: findInventoryPage *)

\* the value findInventoryPage returns for "no inventory page" (null)
NoUrl == ""

\* new URL(href, baseUrl) throws for a target that has no valid host
UrlThrows(href) == StartsWith(href, "//[")

\* new URL(href, baseUrl).href, for a base that is an origin without a path
NewURL(href, baseUrl) ==
  IF StartsWith(href, "/") THEN baseUrl \o href ELSE baseUrl \o "/" \o href

\* pattern.keywords.some(keyword => text.includes(keyword) || href.toLowerCase().includes(keyword))
MatchesKeywords(pattern, href, text) ==
  \E k \in 1..Len(pattern.keywords) :
     \/ Includes(text, pattern.keywords[k])
     \/ Includes(ToLowerCase(href), pattern.keywords[k])

MatchesPath(pattern, href) == Includes(ToLowerCase(href), pattern.path)

\* mutant: Math.round in place of Math.floor
HalfScoreRounded(score) == (score + 1) \div 2

\* Math.floor(pattern.score / 2)
HalfScore(score) == score \div 2

\* the confidence pushed for one (link, pattern) pair that matched
Confidence(pattern, href) ==
  IF MatchesPath(pattern, href) THEN pattern.score ELSE HalfScore(pattern.score)

\* the inner loop over INVENTORY_PATTERNS for one link, from pattern p on
RECURSIVE ScoreLink(_, _, _, _)
ScoreLink(fullUrl, href, text, p) ==
  IF p > Len(INVENTORY_PATTERNS) THEN <<>>
  ELSE LET pattern == INVENTORY_PATTERNS[p]
           rest == ScoreLink(fullUrl, href, text, p + 1)
       IN IF MatchesPath(pattern, href) \/ MatchesKeywords(pattern, href, text)
          THEN << [url |-> fullUrl,
                   confidence |-> Confidence(pattern, href),
                   text |-> text,
                   pattern |-> pattern.path] >> \o rest
          ELSE rest

\* the callback of $('a[href]').each for one anchor
LinkCandidates(link, baseUrl) ==
  LET href == link.href
      text == Trim(ToLowerCase(link.text))
  IN IF href = "" THEN <<>>
     ELSE IF ~StartsWith(href, "http") /\ UrlThrows(href) THEN <<>>
     ELSE ScoreLink(IF StartsWith(href, "http") THEN href ELSE NewURL(href, baseUrl),
                    href, text, 1)

RECURSIVE InventoryUrls(_, _)
InventoryUrls(links, baseUrl) ==
  IF links = <<>> THEN <<>>
  ELSE LinkCandidates(Head(links), baseUrl) \o InventoryUrls(Tail(links), baseUrl)

\* mutant: an insertion that goes in front of the elements it compares equal to
RECURSIVE InsertBeforeEqual(_, _)
InsertBeforeEqual(sorted, c) ==
  IF sorted = <<>> THEN <<c>>
  ELSE IF Head(sorted).confidence > c.confidence
       THEN <<Head(sorted)>> \o InsertBeforeEqual(Tail(sorted), c)
       ELSE <<c>> \o sorted

\* one insertion of a stable descending sort: behind every element that does
\* not compare after it (b.confidence - a.confidence <= 0)
RECURSIVE InsertByConfidence(_, _)
InsertByConfidence(sorted, c) ==
  IF sorted = <<>> THEN <<c>>
  ELSE IF Head(sorted).confidence >= c.confidence
       THEN <<Head(sorted)>> \o InsertByConfidence(Tail(sorted), c)
       ELSE <<c>> \o sorted

\* inventoryUrls.sort((a, b) => b.confidence - a.confidence): Array.prototype.sort is stable
RECURSIVE SortByConfidence(_)
SortByConfidence(cands) ==
  IF cands = <<>> THEN <<>>
  ELSE InsertByConfidence(SortByConfidence(SubSeq(cands, 1, Len(cands) - 1)),
                          cands[Len(cands)])

\* the outcomes of axios.get(baseUrl): a rejection, or a document with its anchors
FetchFailed(reason) == [ok |-> FALSE, error |-> reason, links |-> <<>>]
FetchedPage(links) == [ok |-> TRUE, error |-> "", links |-> links]

\* the try block of findInventoryPage past the fetch
BestInventoryUrl(links, baseUrl) ==
  LET inventoryUrls == InventoryUrls(links, baseUrl)
  IN IF Len(inventoryUrls) > 0
     THEN SortByConfidence(inventoryUrls)[1].url
     ELSE NoUrl

\* mutant: the catch of findInventoryPage falls back to a guessed inventory path
FindInventoryPageGuess(fetch, baseUrl) ==
  IF ~fetch.ok THEN baseUrl \o "/inventory" ELSE BestInventoryUrl(fetch.links, baseUrl)

\* findInventoryPage(baseUrl), given what the homepage fetch produced: a rejected
\* fetch lands in catch, which returns null
FindInventoryPage(fetch, baseUrl) ==
  IF ~fetch.ok THEN NoUrl ELSE BestInventoryUrl(fetch.links, baseUrl)

-----------------------------------------------------------------------------
(* ListingExtractor: cleanText, extractVehicleData, scrapeVehicleInventory *)

\* new Date().toISOString(): the wall clock is not modelled, every reading is this one
Now == "2024-01-01T00:00:00.000Z"

CleanText(text0, field) ==
  IF text0 = "" THEN ""
  ELSE LET text == Trim(CollapseWhitespace(text0))
       IN CASE field = "price" -> KeepChars(text, Digits \cup {",", ".", "$"})
            [] field = "year"  -> (IF MatchYear(text) # "" THEN MatchYear(text)
                                   ELSE Substring0(text, 10))
            [] field \in {"make", "model", "trim"} ->
                 Substring0(Trim(KeepChars(text, WordChars \cup Whitespace \cup {"-"})), 50)
            [] OTHER -> Substring0(text, 100)

ExtractYear(text) == MatchYear(text)

ExtractPrice(text) == KeepChars(text, Digits \cup {","})

\* el.textContent?.trim() || el.innerText?.trim() || ''
ElementText(el) ==
  IF Trim(el.textContent) # "" THEN Trim(el.textContent) ELSE Trim(el.innerText)

\* mutant: no break after a hit, every selector is queried and the last hit stays
RECURSIVE FieldLookupNoBreak(_, _, _)
FieldLookupNoBreak(container, field, k) ==
  LET selectors == FieldSelectors(field)
  IN IF k > Len(selectors) THEN [value |-> "", queried |-> <<>>, hit |-> FALSE]
     ELSE LET selector == selectors[k]
              rest == FieldLookupNoBreak(container, field, k + 1)
              next == [rest EXCEPT !.queried = <<selector>> \o @]
          IN IF selector \in container.throws THEN next
             ELSE IF selector \notin DOMAIN container.els THEN next
             ELSE LET text == ElementText(container.els[selector])
                  IN IF text # "" /\ text # "undefined" /\ ~rest.hit
                     THEN [value |-> CleanText(text, field),
                           queried |-> <<selector>> \o rest.queried, hit |-> TRUE]
                     ELSE next

\* the loop over one field's selectors, from selector k on: the value it leaves in
\* vehicle[field], the selectors it calls container.$ with, and whether it broke on a hit
RECURSIVE FieldLookup(_, _, _)
FieldLookup(container, field, k) ==
  LET selectors == FieldSelectors(field)
  IN IF k > Len(selectors) THEN [value |-> "", queried |-> <<>>, hit |-> FALSE]
     ELSE LET selector == selectors[k]
              rest == FieldLookup(container, field, k + 1)
              next == [rest EXCEPT !.queried = <<selector>> \o @]
          IN IF selector \in container.throws THEN next
             ELSE IF selector \notin DOMAIN container.els THEN next
             ELSE LET text == ElementText(container.els[selector])
                  IN IF text # "" /\ text # "undefined"
                     THEN [value |-> CleanText(text, field),
                           queried |-> <<selector>>, hit |-> TRUE]
                     ELSE next

\* the value of vehicle[field] after the loop over the field's selectors, from selector k on
FieldValue(container, field, k) == FieldLookup(container, field, k).value

ExtractVehicleData(container, dealerInfo, sourceUrl) ==
  LET make  == FieldValue(container, "make", 1)
      year  == FieldValue(container, "year", 1)
      price == FieldValue(container, "price", 1)
  IN [dealer    |-> dealerInfo.name,
      brand     |-> dealerInfo.brand,
      city      |-> dealerInfo.city,
      make      |-> IF make = "" /\ dealerInfo.brand # "" THEN dealerInfo.brand ELSE make,
      model     |-> FieldValue(container, "model", 1),
      year      |-> IF year # "" THEN ExtractYear(year) ELSE year,
      trim      |-> FieldValue(container, "trim", 1),
      price     |-> IF price # "" THEN ExtractPrice(price) ELSE price,
      stock     |-> FieldValue(container, "stock", 1),
      scrapedAt |-> Now,
      sourceUrl |-> sourceUrl]

\* mutant: every record is pushed
RetainedAlways(vehicle) == TRUE

\* if (vehicle && (vehicle.make || vehicle.model))
Retained(vehicle) == vehicle.make # "" \/ vehicle.model # ""

\* the loop over the first maxVehicles containers of one selector, from container i on
RECURSIVE ContainerVehicles(_, _, _, _, _)
ContainerVehicles(containers, maxVehicles, i, dealerInfo, sourceUrl) ==
  IF i > maxVehicles THEN <<>>
  ELSE LET vehicle == ExtractVehicleData(containers[i], dealerInfo, sourceUrl)
           rest == ContainerVehicles(containers, maxVehicles, i + 1, dealerInfo, sourceUrl)
       IN IF Retained(vehicle) THEN <<vehicle>> \o rest ELSE rest

\* mutant: every matched container is processed
MaxVehiclesOfAll(containers) == Len(containers)

\* const maxVehicles = Math.min(containers.length, 20)
MaxVehiclesOf(containers) == Min(Len(containers), MaxVehicles)

\* mutant: the loop breaks at the first selector that matches an element, whether or
\* not a vehicle came of it
RECURSIVE SelectorCascadeFirstMatch(_, _, _, _)
SelectorCascadeFirstMatch(page, s, dealerInfo, sourceUrl) ==
  IF s > Len(ContainerSelectors) THEN <<>>
  ELSE LET sel == ContainerSelectors[s]
       IN IF sel \in page.throws
          THEN SelectorCascadeFirstMatch(page, s + 1, dealerInfo, sourceUrl)
          ELSE IF Len(page.containers[sel]) > 0
          THEN ContainerVehicles(page.containers[sel], MaxVehiclesOf(page.containers[sel]), 1,
                                 dealerInfo, sourceUrl)
          ELSE SelectorCascadeFirstMatch(page, s + 1, dealerInfo, sourceUrl)

\* the loop over VEHICLE_SELECTORS.container, from selector s on
RECURSIVE SelectorCascade(_, _, _, _)
SelectorCascade(page, s, dealerInfo, sourceUrl) ==
  IF s > Len(ContainerSelectors) THEN <<>>
  ELSE LET sel == ContainerSelectors[s]
       IN IF sel \in page.throws
          THEN SelectorCascade(page, s + 1, dealerInfo, sourceUrl)
          ELSE LET containers == page.containers[sel]
                   vehicles == ContainerVehicles(containers, MaxVehiclesOf(containers), 1,
                                                 dealerInfo, sourceUrl)
               IN IF Len(containers) > 0 /\ Len(vehicles) > 0
                  THEN vehicles
                  ELSE SelectorCascade(page, s + 1, dealerInfo, sourceUrl)

\* what page.goto produced: a navigation failure, or a rendered document
NavigationFailed == [ok |-> FALSE, containers |-> <<>>, throws |-> {}]

\* the value scrapeVehicleInventory returns once the browser is launched
ScrapeVehicleInventory(render, dealerInfo, inventoryUrl) ==
  IF ~render.ok THEN <<>>
  ELSE SelectorCascade(render, 1, dealerInfo, inventoryUrl)

-----------------------------------------------------------------------------
(* Catalog writer: escapeCSV, saveVehiclesToCSV *)

\* str.replace(/"/g, '""')
RECURSIVE DoubleQuotes(_)
DoubleQuotes(str) ==
  IF str = "" THEN ""
  ELSE (IF Char(str, 1) = "\"" THEN "\"\"" ELSE Char(str, 1)) \o DoubleQuotes(Tail(str))

\* every field of a vehicle record is a string, never null or undefined
EscapeCSV(field) ==
  IF Includes(field, ",") \/ Includes(field, "\"") \/ Includes(field, "\n")
  THEN "\"" \o DoubleQuotes(field) \o "\""
  ELSE field

CsvHeader ==
  JoinWith(<< "Dealer", "Brand", "City", "Make", "Model", "Year", "Trim",
              "Price", "Stock", "Scraped At", "Source URL" >>, ",") \o "\n"

CsvRow(vehicle) ==
  JoinWith(<< EscapeCSV(vehicle.dealer), EscapeCSV(vehicle.brand), EscapeCSV(vehicle.city),
              EscapeCSV(vehicle.make), EscapeCSV(vehicle.model), EscapeCSV(vehicle.year),
              EscapeCSV(vehicle.trim), EscapeCSV(vehicle.price), EscapeCSV(vehicle.stock),
              EscapeCSV(vehicle.scrapedAt), EscapeCSV(vehicle.sourceUrl) >>, ",") \o "\n"

RECURSIVE CsvRows(_)
CsvRows(vehicles) ==
  IF vehicles = <<>> THEN "" ELSE CsvRow(Head(vehicles)) \o CsvRows(Tail(vehicles))

\* the csvContent saveVehiclesToCSV hands to fs.writeFile
CsvContent(vehicles) == CsvHeader \o CsvRows(vehicles)

\* fs.writeFile(csvPath, csvContent) that succeeds replaces the file
WriteFile(prior, csvContent) == csvContent

\* stock.csv does not exist
NoFile == "<no file>"

-----------------------------------------------------------------------------
(* Inputs: rosters, homepages and rendered pages the environment may produce *)

DealerKinds ==
  { [brand |-> "Toyota", city |-> "Toronto", website |-> ""],
    [brand |-> "",       city |-> "Ajax",    website |-> "https://x.test"],
    [brand |-> "Honda",  city |-> "Whitby",  website |-> "https://y.test"] }

\* the k-th row of the roster file: loadCSV trims every value
DealerRow(k, kind) ==
  [brand |-> kind.brand, name |-> "Dealer " \o Char("123456789", k), address |-> "",
   city |-> kind.city, phone |-> "", website |-> kind.website,
   validationStatus |-> "", lastChecked |-> ""]

Rosters ==
  UNION { { [k \in 1..n |-> DealerRow(k, kinds[k])] : kinds \in [1..n -> DealerKinds] }
          : n \in 0..MaxRoster }

HomepageFetches ==
  { FetchFailed("timeout of 10000ms exceeded"),
    FetchFailed("Invalid URL"),
    FetchedPage(<< [href |-> "/about", text |-> "About Us"] >>),
    FetchedPage(<< [href |-> "/contact", text |-> "Contact"],
                   [href |-> "/new-vehicles", text |-> " New Vehicles "] >>) }

Element(text) == [textContent |-> text, innerText |-> text]

SelectorSet == { ContainerSelectors[k] : k \in 1..Len(ContainerSelectors) }

RenderedPage(bySelector) ==
  [ok |-> TRUE,
   containers |-> [sel \in SelectorSet |->
                     IF sel \in DOMAIN bySelector THEN bySelector[sel] ELSE <<>>],
   throws |-> {}]

FullCard ==
  [els |-> (".make" :> Element("Honda")) @@ (".model" :> Element("Civic, LX"))
           @@ (".year" :> Element("New 2024")) @@ (".price" :> Element("$25,000.00")),
   throws |-> {}]

PriceOnlyCard == [els |-> (".price" :> Element("$9,999")), throws |-> {}]

\* a page on which page.$$ throws for the first container selector and the other
\* selectors match nothing
BrokenPage == [RenderedPage(<<>>) EXCEPT !.throws = {".vehicle-card"}]

RenderedPages ==
  { RenderedPage(<<>>),
    RenderedPage((".vehicle-card" :> << FullCard, PriceOnlyCard >>)),
    BrokenPage }

\* the request body's maxDealers: absent, or a number
NoCap == [given |-> FALSE, n |-> 0]
Cap(n) == [given |-> TRUE, n |-> n]
Caps == {NoCap} \cup { Cap(n) : n \in 0..MaxRoster }

PriorCatalog == CsvHeader \o "Old Dealer,Kia,Oshawa,Kia,Rio,2020,,\"15,000\",,2023-01-01T00:00:00.000Z,https://old.test/new\n"

-----------------------------------------------------------------------------
(* CrawlOrchestrator: scrapeAllDealers *)

Slots == 1..MaxRuns

\* a run is suspended at one of its awaits
Active == {"discover", "launch", "render", "delay", "save"}

IdleRun ==
  [pc |-> "idle", dealersToScrape |-> <<>>, i |-> 1, allVehicles |-> <<>>,
   successCount |-> 0, failCount |-> 0, inventoryUrl |-> NoUrl, browser |-> FALSE,
   summary |-> <<>>, error |-> "", saveCalls |-> 0, stockAtStart |-> NoFile,
   lastCall |-> [what |-> "none", idx |-> 0]]

\* dealersDatabase.slice(0, n) for n >= 0
Slice0(seq, n) == SubSeq(seq, 1, Min(n, Len(seq)))

\* maxDealers ? dealersDatabase.slice(0, maxDealers) : dealersDatabase
DealersToScrape(database, maxDealers) ==
  IF maxDealers.given /\ maxDealers.n # 0 THEN Slice0(database, maxDealers.n) ELSE database

\* mutant: only a missing website field counts, an empty string does not
HasNoWebsiteMissingOnly(dealer) == "website" \notin DOMAIN dealer

\* !dealer.website || dealer.website.trim() === ''
HasNoWebsite(dealer) == dealer.website = "" \/ Trim(dealer.website) = ""

NoWebsiteResult(dealer) ==
  [dealer |-> dealer.name, status |-> "no_website", vehicles |-> <<>>,
   error |-> "No website URL provided"]

NoInventoryPageResult(dealer) ==
  [dealer |-> dealer.name, status |-> "no_inventory_page", vehicles |-> <<>>,
   error |-> "Could not find inventory page"]

SuccessResult(dealer, vehicles, inventoryUrl) ==
  [dealer |-> dealer.name, status |-> "success", vehicles |-> vehicles,
   count |-> Len(vehicles), inventoryUrl |-> inventoryUrl]

ErrorResult(dealer, message) ==
  [dealer |-> dealer.name, status |-> "error", error |-> message, vehicles |-> <<>>]

\* mutant: unshift instead of push
PushResultFront(results, outcome) == <<outcome>> \o results

\* lastScrapeResults.push(outcome)
PushResult(results, outcome) == Append(results, outcome)

Summary(rs, results) ==
  [totalDealers |-> Len(rs.dealersToScrape), successCount |-> rs.successCount,
   failCount |-> rs.failCount, totalVehicles |-> Len(rs.allVehicles),
   timestamp |-> Now, results |-> results]

(* A context c is what one synchronous segment of scrapeAllDealers works on:
   c.rs the locals of the invocation, c.results lastScrapeResults,
   c.flag scrapingInProgress. *)

\* finally { scrapingInProgress = false }
Finally(c) == [c EXCEPT !.flag = FALSE]

\* the summary is built and returned: the promise fulfils
Complete(c) ==
  Finally([c EXCEPT !.rs.pc = "done", !.rs.summary = << Summary(c.rs, c.results) >>])

\* mutant: the catalog is written whether or not a vehicle was collected
NeedsSaveAlways(rs) == TRUE

\* if (allVehicles.length > 0) await saveVehiclesToCSV(allVehicles)
NeedsSave(rs) == Len(rs.allVehicles) > 0

AfterLoop(c) ==
  IF NeedsSave(c.rs)
  THEN [c EXCEPT !.rs.pc = "save", !.rs.saveCalls = @ + 1]
  ELSE Complete(c)

\* the for loop from dealer c.rs.i on, up to its next await or to the function's end
RECURSIVE Loop(_)
Loop(c) ==
  IF c.rs.i > Len(c.rs.dealersToScrape) THEN AfterLoop(c)
  ELSE LET dealer == c.rs.dealersToScrape[c.rs.i]
       IN IF HasNoWebsite(dealer)
          THEN Loop([c EXCEPT !.results = PushResult(@, NoWebsiteResult(dealer)),
                              !.rs.failCount = @ + 1,
                              !.rs.i = @ + 1])
          ELSE [c EXCEPT !.rs.pc = "discover"]

\* mutant: the outcome list of the previous crawl is not cleared
BeginKeepResults(database, maxDealers, catalog) ==
  Loop([rs |-> [IdleRun EXCEPT !.dealersToScrape = DealersToScrape(database, maxDealers),
                               !.stockAtStart = catalog],
        results |-> lastScrapeResults,
        flag |-> TRUE])

\* the entry of scrapeAllDealers past its guard
Begin(database, maxDealers, catalog) ==
  Loop([rs |-> [IdleRun EXCEPT !.dealersToScrape = DealersToScrape(database, maxDealers),
                               !.stockAtStart = catalog],
        results |-> <<>>,
        flag |-> TRUE])

\* findInventoryPage returned inventoryUrl
AfterDiscovery(c, inventoryUrl) ==
  LET dealer == c.rs.dealersToScrape[c.rs.i]
  IN IF inventoryUrl = NoUrl
     THEN Loop([c EXCEPT !.results = PushResult(@, NoInventoryPageResult(dealer)),
                         !.rs.failCount = @ + 1,
                         !.rs.i = @ + 1])
     ELSE [c EXCEPT !.rs.pc = "launch", !.rs.inventoryUrl = inventoryUrl]

\* mutant: an empty extraction is recorded as an error of the dealer
AfterExtractionEmptyIsError(c, vehicles) ==
  LET dealer == c.rs.dealersToScrape[c.rs.i]
  IN IF vehicles = <<>>
     THEN [c EXCEPT !.results = PushResult(@, ErrorResult(dealer, "No vehicles found")),
                    !.rs.failCount = @ + 1,
                    !.rs.browser = FALSE,
                    !.rs.pc = "delay"]
     ELSE [c EXCEPT !.results = PushResult(@, SuccessResult(dealer, vehicles, c.rs.inventoryUrl)),
                    !.rs.successCount = @ + 1,
                    !.rs.allVehicles = @ \o vehicles,
                    !.rs.browser = FALSE,
                    !.rs.pc = "delay"]

\* scrapeVehicleInventory returned vehicles
AfterExtraction(c, vehicles) ==
  LET dealer == c.rs.dealersToScrape[c.rs.i]
  IN [c EXCEPT !.results = PushResult(@, SuccessResult(dealer, vehicles, c.rs.inventoryUrl)),
               !.rs.successCount = @ + 1,
               !.rs.allVehicles = @ \o vehicles,
               !.rs.browser = FALSE,
               !.rs.pc = "delay"]

\* the 2 s pause is over: the loop goes on with the next dealer
AfterDelay(c) == Loop([c EXCEPT !.rs.i = @ + 1])

\* mutant: no per-dealer catch, the exception ends the crawl
CatchDealerErrorAbort(c, message) ==
  Finally([c EXCEPT !.rs.pc = "failed", !.rs.error = message, !.rs.browser = FALSE])

\* mutant: the catch records the error outcome and forgets failCount++
CatchDealerErrorUncounted(c, message) ==
  LET dealer == c.rs.dealersToScrape[c.rs.i]
  IN Loop([c EXCEPT !.results = PushResult(@, ErrorResult(dealer, message)),
                    !.rs.browser = FALSE,
                    !.rs.i = @ + 1])

\* catch (error) of the dealer loop
CatchDealerError(c, message) ==
  LET dealer == c.rs.dealersToScrape[c.rs.i]
  IN Loop([c EXCEPT !.results = PushResult(@, ErrorResult(dealer, message)),
                    !.rs.failCount = @ + 1,
                    !.rs.browser = FALSE,
                    !.rs.i = @ + 1])

\* mutant: the write error is logged and swallowed, the crawl completes
SaveFailedSwallowed(c, message) == Complete(c)

\* mutant: the flag is reset on the success path only, not in a finally
SaveFailedFlagStuck(c, message) == [c EXCEPT !.rs.pc = "failed", !.rs.error = message]

\* saveVehiclesToCSV rethrows: scrapeAllDealers rejects, through its finally
SaveFailed(c, message) == Finally([c EXCEPT !.rs.pc = "failed", !.rs.error = message])

-----------------------------------------------------------------------------
(* State machine *)

\* the responses of POST /scrape/start; NoResponse: none is under way
NoResponse == [status |-> 0, body |-> ""]
RejectedResponse == [status |-> 400, body |-> "Scraping already in progress"]
StartedResponse == [status |-> 200, body |-> "Scraping started"]

\* no function is applied on its own
NoProbe == [fn |-> "none"]

Init ==
  /\ dealersDatabase \in Rosters
  /\ scrapingInProgress = FALSE
  /\ lastScrapeResults = <<>>
  /\ stock \in {NoFile, PriorCatalog}
  /\ run = [r \in Slots |-> IdleRun]
  /\ openBrowsers = 0
  /\ lastResponse = NoResponse
  /\ probe = NoProbe
  /\ answer = <<>>

Ctx(r) == [rs |-> run[r], results |-> lastScrapeResults, flag |-> scrapingInProgress]

\* history of run r: how its latest awaited call ended, and for which dealer index
\* (0 for the catalog write, which is for no dealer)
Note(c, what, idx) == [c EXCEPT !.rs.lastCall = [what |-> what, idx |-> idx]]

Commit(r, c) ==
  /\ run' = [run EXCEPT ![r] = c.rs]
  /\ lastScrapeResults' = c.results
  /\ scrapingInProgress' = c.flag

\* mutant: the handler's own check of the flag is missing
HandlerNeverRejects == FALSE

\* if (scrapingInProgress) return res.status(400)...   (POST /scrape/start)
HandlerRejects == scrapingInProgress

\* if (scrapingInProgress) throw new Error(...)        (scrapeAllDealers)
AlreadyRunning == scrapingInProgress

FreeSlots == { r \in Slots : run[r].pc \notin Active }

\* mutant: the outcome list is cleared before the flag is looked at, so that a
\* rejected request wipes the outcomes of the running crawl
StartClearsFirst(maxDealers) ==
  IF HandlerRejects \/ AlreadyRunning
  THEN /\ lastResponse' = RejectedResponse
       /\ lastScrapeResults' = <<>>
       /\ UNCHANGED <<probe, answer, dealersDatabase, scrapingInProgress, stock, run,
                      openBrowsers>>
  ELSE /\ FreeSlots # {}
       /\ LET r == CHOOSE f \in FreeSlots : \A g \in FreeSlots : f <= g
          IN Commit(r, Begin(dealersDatabase, maxDealers, stock))
       /\ lastResponse' = StartedResponse
       /\ UNCHANGED <<probe, answer, dealersDatabase, stock, openBrowsers>>

\* POST /scrape/start with body {maxDealers}: the handler, and the part of
\* scrapeAllDealers it runs before that function's first await
Start(maxDealers) ==
  IF HandlerRejects
  THEN /\ lastResponse' = RejectedResponse
       /\ UNCHANGED <<probe, answer, dealersDatabase, scrapingInProgress, lastScrapeResults, stock, run,
                      openBrowsers>>
  ELSE IF AlreadyRunning
  THEN \* the promise rejects and .catch logs it; the handler has answered 200
       /\ lastResponse' = StartedResponse
       /\ UNCHANGED <<probe, answer, dealersDatabase, scrapingInProgress, lastScrapeResults, stock, run,
                      openBrowsers>>
  ELSE /\ FreeSlots # {}
       /\ LET r == CHOOSE f \in FreeSlots : \A g \in FreeSlots : f <= g
          IN Commit(r, Begin(dealersDatabase, maxDealers, stock))
       /\ lastResponse' = StartedResponse
       /\ UNCHANGED <<probe, answer, dealersDatabase, stock, openBrowsers>>

\* the client of POST /scrape/start takes the response (.then(r => r.json()))
ResponseReceived ==
  /\ lastResponse # NoResponse
  /\ lastResponse' = NoResponse
  /\ UNCHANGED <<probe, answer, dealersDatabase, scrapingInProgress, lastScrapeResults, stock, run,
                 openBrowsers>>

\* mutant: the outcome list is withheld while a crawl is running
StatusResponseWithheld ==
  [inProgress |-> scrapingInProgress,
   lastResults |-> IF scrapingInProgress THEN <<>> ELSE lastScrapeResults,
   totalDealers |-> Len(dealersDatabase)]

\* GET /scrape/status reads the state and changes nothing: its response in a state
StatusResponse ==
  [inProgress |-> scrapingInProgress,
   lastResults |-> lastScrapeResults,
   totalDealers |-> Len(dealersDatabase)]

\* await findInventoryPage(dealer.website) resumes
DiscoverReturns(r, fetch) ==
  /\ run[r].pc = "discover"
  /\ LET dealer == run[r].dealersToScrape[run[r].i]
     IN Commit(r, Note(AfterDiscovery(Ctx(r), FindInventoryPage(fetch, dealer.website)),
                       IF fetch.ok THEN "fetched" ELSE "fetch_failed", run[r].i))
  /\ UNCHANGED <<probe, answer, dealersDatabase, stock, openBrowsers, lastResponse>>

\* await puppeteer.launch(...) resumes inside scrapeVehicleInventory
LaunchReturns(r, launched) ==
  /\ run[r].pc = "launch"
  /\ IF launched
     THEN /\ run' = [run EXCEPT ![r].pc = "render", ![r].browser = TRUE,
                                 ![r].lastCall = [what |-> "launched", idx |-> run[r].i]]
          /\ openBrowsers' = openBrowsers + 1
          /\ UNCHANGED <<scrapingInProgress, lastScrapeResults>>
     ELSE \* catch: return []; browser is undefined, nothing to close
          /\ Commit(r, Note(AfterExtraction(Ctx(r), <<>>), "launch_failed", run[r].i))
          /\ UNCHANGED openBrowsers
  /\ UNCHANGED <<probe, answer, dealersDatabase, stock, lastResponse>>

\* mutant: the browser is closed on the success path only, never in a finally
CloseBrowserSkipped(open) == open

\* finally { if (browser) await browser.close() }: of the sessions open, this one is
\* gone; a close that rejects is logged and the call returns all the same (puppeteer
\* rejects it once the connection to the browser is lost)
CloseBrowser(open) == open - 1

\* console.log of how the read of a rendered page went
RenderNote(render) ==
  IF ~render.ok THEN "navigation_failed"
  ELSE IF render.throws # {} THEN "selector_failed"
  ELSE "rendered"

\* the page is navigated to and read (or navigation fails), the browser is closed in
\* finally, and scrapeVehicleInventory returns to the dealer loop
RenderReturns(r, render) ==
  /\ run[r].pc = "render"
  /\ LET dealer == run[r].dealersToScrape[run[r].i]
     IN Commit(r, Note(AfterExtraction(Ctx(r),
                          ScrapeVehicleInventory(render, dealer, run[r].inventoryUrl)),
                       RenderNote(render), run[r].i))
  /\ openBrowsers' = CloseBrowser(openBrowsers)
  /\ UNCHANGED <<probe, answer, dealersDatabase, stock, lastResponse>>

\* await new Promise(resolve => setTimeout(resolve, 2000)) resumes
DelayElapses(r) ==
  /\ run[r].pc = "delay"
  /\ Commit(r, AfterDelay(Ctx(r)))
  /\ UNCHANGED <<probe, answer, dealersDatabase, stock, openBrowsers, lastResponse>>

\* an exception reaches the dealer loop from one of its two awaited calls (one that
\* escapes the callee's own catch, as when its handler reads .message of a thrown
\* value that has none); an open browser is closed by the callee's finally first
DealerThrows(r, message) ==
  /\ run[r].pc \in {"discover", "launch", "render"}
  /\ Commit(r, Note(CatchDealerError(Ctx(r), message), "threw", run[r].i))
  /\ openBrowsers' = IF run[r].browser THEN CloseBrowser(openBrowsers) ELSE openBrowsers
  /\ UNCHANGED <<probe, answer, dealersDatabase, stock, lastResponse>>

\* what stock.csv may hold after fs.writeFile failed: the prior content (the file
\* could not be opened) or nothing (it was opened, which truncates it, and the write
\* failed)
FailedWrites(prior, vehicles) == {prior, ""}

WriteError == "EACCES: permission denied, open 'stock.csv'"

\* await saveVehiclesToCSV(allVehicles) resumes
SaveReturns(r, written) ==
  /\ run[r].pc = "save"
  /\ IF written
     THEN /\ stock' = WriteFile(stock, CsvContent(run[r].allVehicles))
          /\ Commit(r, Note(Complete(Ctx(r)), "written", 0))
     ELSE /\ stock' \in FailedWrites(stock, run[r].allVehicles)
          /\ Commit(r, Note(SaveFailed(Ctx(r), WriteError), "write_failed", 0))
  /\ UNCHANGED <<probe, answer, dealersDatabase, openBrowsers, lastResponse>>

ThrownMessages == {"Cannot read properties of undefined (reading 'message')"}

Next ==
  \/ \E maxDealers \in Caps : Start(maxDealers)
  \/ ResponseReceived
  \/ \E r \in Slots : \E fetch \in HomepageFetches : DiscoverReturns(r, fetch)
  \/ \E r \in Slots : \E launched \in BOOLEAN : LaunchReturns(r, launched)
  \/ \E r \in Slots : \E render \in {NavigationFailed} \cup RenderedPages : RenderReturns(r, render)
  \/ \E r \in Slots : DelayElapses(r)
  \/ \E r \in Slots : \E message \in ThrownMessages : DealerThrows(r, message)
  \/ \E r \in Slots : \E written \in BOOLEAN : SaveReturns(r, written)

Spec == Init /\ [][Next]_vars

-----------------------------------------------------------------------------
(* Properties *)

Running == { r \in Slots : run[r].pc \in Active }

\* the invocations that have begun; lastScrapeResults belongs to the one begun last
Begun == { r \in Slots : run[r].pc # "idle" }

DealerAt(r, k) == run[r].dealersToScrape[k]

\* C1: single-flight.  In every state at most one invocation of scrapeAllDealers is
\* suspended at an await, and one is exactly when scrapingInProgress is true; and a
\* POST /scrape/start handled while one is running is answered 400 "Scraping already
\* in progress" and begins nothing: no run, no outcome list and no flag changes.
C1_SingleFlight ==
  /\ [](/\ Cardinality(Running) <= 1
        /\ scrapingInProgress <=> Running # {})
  /\ [][\A maxDealers \in Caps :
          (Running # {} /\ Start(maxDealers)) =>
             /\ lastResponse' = RejectedResponse
             /\ UNCHANGED <<run, lastScrapeResults, scrapingInProgress>>]_vars

\* C1 witness: a start request was answered 400 while a crawl is running
C1_Witness == Running # {} /\ lastResponse = RejectedResponse

\* C2: a step that ends a running crawl, by completion or by a failed catalog write,
\* leaves scrapingInProgress false; the flag is never true without a running crawl;
\* and a start request handled after a crawl has ended is accepted.
C2_FlagReset ==
  /\ [](Running = {} => ~scrapingInProgress)
  /\ [][/\ \A r \in Slots :
             (run[r].pc \in Active /\ run'[r].pc \in {"done", "failed"})
                => ~scrapingInProgress'
        /\ \A maxDealers \in Caps :
             ((\E r \in Slots : run[r].pc \in {"done", "failed"})
                /\ Running = {} /\ Start(maxDealers))
                => /\ lastResponse' = StartedResponse
                   /\ \E r \in Slots :
                        /\ run'[r].pc \in Active \cup {"done"}
                        /\ run'[r].dealersToScrape =
                             DealersToScrape(dealersDatabase, maxDealers)
                        /\ run'[r].lastCall.what = "none"]_vars

\* C2 witness: a crawl ended by a failed catalog write and the flag is down
C2_Witness ==
  \E r \in Slots : run[r].pc = "failed" /\ run[r].saveCalls = 1 /\ ~scrapingInProgress

\* C3: when an exception reaches the dealer loop while dealer i is processed, the
\* outcome recorded for dealer i is the error outcome with that message, the crawl is
\* not ended by it, and the loop goes on behind dealer i; a crawl that is past its
\* loop has an outcome for every dealer it was given.
C3_FailureIsolation ==
  /\ [](\A r \in Begun :
          run[r].pc \in {"save", "done", "failed"}
             => Len(lastScrapeResults) = Len(run[r].dealersToScrape))
  /\ [][\A r \in Slots : \A message \in ThrownMessages :
          DealerThrows(r, message) =>
             /\ Len(lastScrapeResults') >= run[r].i
             /\ lastScrapeResults'[run[r].i] = ErrorResult(DealerAt(r, run[r].i), message)
             /\ run'[r].pc \in Active \cup {"done"}
             /\ run'[r].error = ""
             /\ run'[r].i > run[r].i]_vars

\* C3 witness: a crawl is past its loop, one dealer's outcome is an error and the
\* dealer behind it has an outcome that is not
C3_Witness ==
  \E r \in Begun :
    /\ run[r].pc = "done"
    /\ \E k \in 1..(Len(lastScrapeResults) - 1) :
         /\ lastScrapeResults[k].status = "error"
         /\ lastScrapeResults[k + 1].status = "success"

\* C4: dealers are processed one at a time in roster order.  The k-th outcome is the
\* k-th dealer's; while dealer i is being discovered or extracted exactly the i - 1
\* dealers before it have an outcome; during the pause behind dealer i exactly i have;
\* and past the loop there is exactly one outcome per dealer.
C4_RosterOrder ==
  \A r \in Begun :
    /\ run[r].pc \in {"discover", "launch", "render"} => Len(lastScrapeResults) = run[r].i - 1
    /\ run[r].pc = "delay" => Len(lastScrapeResults) = run[r].i
    /\ run[r].pc \in {"save", "done", "failed"} =>
         Len(lastScrapeResults) = Len(run[r].dealersToScrape)
    /\ run[r].pc \in Active => run[r].i <= Len(run[r].dealersToScrape) \/ run[r].pc = "save"
    /\ Len(lastScrapeResults) <= Len(run[r].dealersToScrape)
    /\ \A k \in 1..Len(lastScrapeResults) : lastScrapeResults[k].dealer = DealerAt(r, k).name

\* C4 witness: a finished crawl of two or more dealers
C4_Witness ==
  \E r \in Begun :
    /\ run[r].pc = "done"
    /\ Len(lastScrapeResults) >= 2
    /\ lastScrapeResults[1].status = "success"

\* a website that is empty or holds only whitespace
IsBlank(website) == \A k \in 1..Len(website) : Char(website, k) \in Whitespace

\* C5: every dealer whose website is blank has the outcome no_website, and no
\* discovery or extraction is ever pending for such a dealer.
C5_NoWebsite ==
  \A r \in Begun :
    /\ \A k \in 1..Len(lastScrapeResults) :
         IsBlank(DealerAt(r, k).website) =>
            lastScrapeResults[k] = NoWebsiteResult(DealerAt(r, k))
    /\ run[r].pc \in {"discover", "launch", "render", "delay"} =>
         ~IsBlank(DealerAt(r, run[r].i).website)
    /\ run[r].lastCall.idx > 0 => ~IsBlank(DealerAt(r, run[r].lastCall.idx).website)
    /\ run[r].pc \in {"save", "done", "failed"} =>
         \A k \in 1..Len(run[r].dealersToScrape) :
            IsBlank(DealerAt(r, k).website) => lastScrapeResults[k].status = "no_website"

\* C5 witness: a dealer without a website has its outcome, next to one with a website
C5_Witness ==
  \E r \in Begun :
    /\ \E k \in 1..Len(lastScrapeResults) :
         IsBlank(DealerAt(r, k).website) /\ lastScrapeResults[k].status = "no_website"
    /\ \E k \in 1..Len(lastScrapeResults) : lastScrapeResults[k].status = "success"

\* C6: a homepage fetch that fails makes findInventoryPage return null, whatever the
\* failure; the dealer's outcome is then no_inventory_page, the loop has moved past
\* the dealer and no browser was launched for it.
C6_FetchFailure ==
  /\ \A fetch \in HomepageFetches : \A kind \in DealerKinds :
       ~fetch.ok => FindInventoryPage(fetch, kind.website) = NoUrl
  /\ \A r \in Begun :
       run[r].lastCall.what = "fetch_failed" =>
          LET k == run[r].lastCall.idx
          IN /\ Len(lastScrapeResults) >= k
             /\ lastScrapeResults[k] = NoInventoryPageResult(DealerAt(r, k))
             /\ run[r].i > k
             /\ ~run[r].browser

\* C6 witness: a dealer's homepage fetch failed and the dealer has its outcome
C6_Witness ==
  \E r \in Begun :
    /\ run[r].lastCall.what = "fetch_failed"
    /\ lastScrapeResults[run[r].lastCall.idx].status = "no_inventory_page"

\* C7: a browser launch or a navigation that fails makes scrapeVehicleInventory return
\* the empty list, and the dealer's outcome is success with no vehicle, count 0 and
\* the inventory URL that discovery returned.
C7_RenderFailure ==
  /\ \A kind \in DealerKinds :
       ScrapeVehicleInventory(NavigationFailed, DealerRow(1, kind), "https://x.test/new") = <<>>
  /\ \A r \in Begun :
       run[r].lastCall.what \in {"launch_failed", "navigation_failed"} =>
          LET k == run[r].lastCall.idx
          IN /\ Len(lastScrapeResults) >= k
             /\ lastScrapeResults[k].status = "success"
             /\ lastScrapeResults[k].vehicles = <<>>
             /\ lastScrapeResults[k].count = 0
             /\ lastScrapeResults[k].inventoryUrl # NoUrl
             /\ (run[r].pc = "delay" /\ run[r].i = k) =>
                   lastScrapeResults[k].inventoryUrl = run[r].inventoryUrl

\* C7 witness: a navigation failed and the dealer's outcome is an empty success
C7_Witness ==
  \E r \in Begun :
    /\ run[r].lastCall.what = "navigation_failed"
    /\ run[r].pc = "delay"
    /\ lastScrapeResults[run[r].lastCall.idx].status = "success"
    /\ lastScrapeResults[run[r].lastCall.idx].count = 0

\* the vehicles of the success outcomes of an outcome list, in its order
RECURSIVE SuccessVehicles(_)
SuccessVehicles(results) ==
  IF results = <<>> THEN <<>>
  ELSE (IF Head(results).status = "success" THEN Head(results).vehicles ELSE <<>>)
         \o SuccessVehicles(Tail(results))

\* C8: the catalog writer is called at most once per crawl, never while a dealer is
\* still to be processed, and exactly when the success outcomes hold a vehicle; it is
\* given their vehicles in roster order; a completed crawl that called it has replaced
\* the catalog by exactly these rows, one that did not has left the catalog as it
\* was when the crawl began.
C8_Persistence ==
  \A r \in Begun :
    /\ run[r].saveCalls <= 1
    /\ run[r].pc \in {"discover", "launch", "render", "delay"} =>
         run[r].saveCalls = 0 /\ stock = run[r].stockAtStart
    /\ run[r].pc = "save" =>
         /\ run[r].saveCalls = 1
         /\ Len(lastScrapeResults) = Len(run[r].dealersToScrape)
         /\ run[r].allVehicles = SuccessVehicles(lastScrapeResults)
         /\ run[r].allVehicles # <<>>
         /\ stock = run[r].stockAtStart
    /\ run[r].pc = "done" =>
         /\ run[r].saveCalls = 1 <=> SuccessVehicles(lastScrapeResults) # <<>>
         /\ stock = IF SuccessVehicles(lastScrapeResults) # <<>>
                    THEN CsvContent(SuccessVehicles(lastScrapeResults))
                    ELSE run[r].stockAtStart

\* C8 witness: a completed crawl replaced an earlier catalog by the vehicles of two dealers
C8_Witness ==
  \E r \in Begun :
    /\ run[r].pc = "done"
    /\ run[r].saveCalls = 1
    /\ run[r].stockAtStart = PriorCatalog
    /\ stock = CsvContent(run[r].allVehicles)
    /\ Len(lastScrapeResults) >= 2
    /\ \A k \in 1..2 : lastScrapeResults[k].status = "success" /\ lastScrapeResults[k].count > 0

\* C9: when the catalog write fails the invocation of scrapeAllDealers rejects with the
\* write error and has no summary, and GET /scrape/status still returns one outcome
\* per dealer of that crawl, in roster order, with the vehicles the crawl collected.
C9_WriteFailure ==
  \A r \in Begun :
    run[r].lastCall.what = "write_failed" =>
       /\ run[r].pc = "failed"
       /\ run[r].summary = <<>>
       /\ run[r].error = WriteError
       /\ Len(StatusResponse.lastResults) = Len(run[r].dealersToScrape)
       /\ \A k \in 1..Len(run[r].dealersToScrape) :
            StatusResponse.lastResults[k].dealer = DealerAt(r, k).name
       /\ SuccessVehicles(StatusResponse.lastResults) = run[r].allVehicles
       /\ run[r].allVehicles # <<>>

\* C9 witness: a crawl of two dealers ended by a failed catalog write
C9_Witness ==
  \E r \in Begun :
    /\ run[r].lastCall.what = "write_failed"
    /\ run[r].pc = "failed"
    /\ Len(StatusResponse.lastResults) >= 2

\* what GET /scrape/status returns of a summary: its outcome list as lastResults, and a
\* totalDealers
StatusSummaryFields ==
  [results |-> StatusResponse.lastResults, totalDealers |-> StatusResponse.totalDealers]

CountStatus(results, statuses) ==
  Cardinality({ k \in 1..Len(results) : results[k].status \in statuses })

C11_DelayAfterEveryDealer ==
  [][\A r \in Slots :
        (/\ run'[r].pc = "discover"
         /\ run'[r].i > 1
         /\ (run[r].pc # "discover" \/ run[r].i # run'[r].i))
        => (run[r].pc = "delay" /\ run[r].i = run'[r].i - 1)]_vars

-----------------------------------------------------------------------------
(* Functions applied on their own: each specification below starts with the  *)
(* arguments of one call in probe and has one step, the call's return, which *)
(* puts the returned value in answer.  No crawl runs in them.                *)

crawlVars == <<dealersDatabase, scrapingInProgress, lastScrapeResults, stock, run,
               openBrowsers, lastResponse>>

\* the state of the server at startup with an empty roster
CrawlAtRest ==
  /\ dealersDatabase = <<>>
  /\ scrapingInProgress = FALSE
  /\ lastScrapeResults = <<>>
  /\ stock = NoFile
  /\ run = [r \in Slots |-> IdleRun]
  /\ openBrowsers = 0
  /\ lastResponse = NoResponse

Answered == answer # <<>>

-----------------------------------------------------------------------------
(* findInventoryPage applied to homepages *)

\* most anchors of a homepage
MaxLinks == 2

\* href attributes: relative, absolute, in capitals, one new URL rejects, an empty one
AnchorHrefs ==
  { "/new-vehicles", "/inventory/new", "/new-inventory", "/About",
    "https://cdn.test/Inventory", "//[new", "" }

\* $(elem).text()
AnchorTexts == { "", " New Arrivals " }

Anchors == { [href |-> h, text |-> t] : h \in AnchorHrefs, t \in AnchorTexts }

Homepages ==
  { FetchFailed("timeout of 10000ms exceeded") }
  \cup UNION { { FetchedPage(links) : links \in [1..n -> Anchors] } : n \in 0..MaxLinks }

DiscoveryProbes ==
  { [fn |-> "findInventoryPage", baseUrl |-> "https://x.test", fetch |-> f] : f \in Homepages }

InitDiscover ==
  /\ CrawlAtRest
  /\ probe \in DiscoveryProbes
  /\ answer = <<>>

\* findInventoryPage(baseUrl) returns; inventoryUrls is its local list before the sort
FindInventoryPageReturns ==
  /\ probe.fn = "findInventoryPage"
  /\ answer = <<>>
  /\ answer' = << [url |-> FindInventoryPage(probe.fetch, probe.baseUrl),
                   inventoryUrls |-> IF probe.fetch.ok
                                     THEN InventoryUrls(probe.fetch.links, probe.baseUrl)
                                     ELSE <<>>] >>
  /\ UNCHANGED <<probe, crawlVars>>

NextDiscover == FindInventoryPageReturns

SpecDiscover == InitDiscover /\ [][NextDiscover]_vars

\* the anchors findInventoryPage scores: a non-empty href that resolves to a URL
IsScored(link) ==
  link.href # "" /\ (StartsWith(link.href, "http") \/ ~UrlThrows(link.href))

RuleOf(p) == INVENTORY_PATTERNS[p]

PathHit(link, p) == Includes(ToLowerCase(link.href), RuleOf(p).path)

KeywordHit(link, p) ==
  \E k \in 1..Len(RuleOf(p).keywords) :
     \/ Includes(Trim(ToLowerCase(link.text)), RuleOf(p).keywords[k])
     \/ Includes(ToLowerCase(link.href), RuleOf(p).keywords[k])

\* the (link, rule) pairs of a homepage that match, by position of the anchor and of the rule
MatchedPairs(links) ==
  { pair \in (1..Len(links)) \X (1..Len(INVENTORY_PATTERNS)) :
      /\ IsScored(links[pair[1]])
      /\ PathHit(links[pair[1]], pair[2]) \/ KeywordHit(links[pair[1]], pair[2]) }

\* pair a comes no later than pair b in link traversal order, then rule order
NoLater(a, b) == a[1] < b[1] \/ (a[1] = b[1] /\ a[2] <= b[2])

\* the place of a matched pair among the matched pairs, in traversal order
Rank(pair, pairs) == Cardinality({ q \in pairs : NoLater(q, pair) })

ExpectedScore(links, pair) ==
  IF PathHit(links[pair[1]], pair[2])
  THEN RuleOf(pair[2]).score
  ELSE RuleOf(pair[2]).score \div 2

ResolvedUrl(link, baseUrl) ==
  IF StartsWith(link.href, "http") THEN link.href
  ELSE IF StartsWith(link.href, "/") THEN baseUrl \o link.href
  ELSE baseUrl \o "/" \o link.href

\* C12: for every anchor findInventoryPage scores and every rule it matches there is
\* one candidate of that rule, in traversal order, and no other candidate; its
\* confidence is the rule's base score when the href contains the rule's path, and
\* floor(base/2) when only a keyword matches, which is above 0 and below the base
\* for every rule of the table (bases 4..10); no candidate's confidence is a sum.
C12_Scoring ==
  /\ \A p \in 1..Len(INVENTORY_PATTERNS) :
        /\ RuleOf(p).score \in 4..10
        /\ 0 < RuleOf(p).score \div 2
        /\ RuleOf(p).score \div 2 < RuleOf(p).score
  /\ (Answered /\ probe.fn = "findInventoryPage" /\ probe.fetch.ok) =>
       LET links == probe.fetch.links
           pairs == MatchedPairs(links)
           cands == answer[1].inventoryUrls
       IN /\ Len(cands) = Cardinality(pairs)
          /\ \A pair \in pairs :
                LET c == cands[Rank(pair, pairs)]
                IN /\ c.pattern = RuleOf(pair[2]).path
                   /\ c.url = ResolvedUrl(links[pair[1]], probe.baseUrl)
                   /\ c.confidence = ExpectedScore(links, pair)
                   /\ c.confidence <= RuleOf(pair[2]).score

\* C12 witness: one anchor gave a candidate by a path match at the full base 9 and a
\* candidate of another rule of base 9 by a keyword only, at 4
C12_Witness ==
  /\ Answered /\ probe.fn = "findInventoryPage" /\ probe.fetch.ok
  /\ \E a, b \in MatchedPairs(probe.fetch.links) :
        /\ a[1] = b[1]
        /\ RuleOf(a[2]).score = 9 /\ RuleOf(b[2]).score = 9
        /\ PathHit(probe.fetch.links[a[1]], a[2])
        /\ ~PathHit(probe.fetch.links[b[1]], b[2])
        /\ answer[1].inventoryUrls[Rank(a, MatchedPairs(probe.fetch.links))].confidence = 9
        /\ answer[1].inventoryUrls[Rank(b, MatchedPairs(probe.fetch.links))].confidence = 4

\* the matched pairs no other matched pair beats: the highest score, and the earliest
\* in traversal order among those with it
Winners(links) ==
  LET pairs == MatchedPairs(links)
  IN { w \in pairs :
         \A q \in pairs :
            \/ ExpectedScore(links, q) < ExpectedScore(links, w)
            \/ (ExpectedScore(links, q) = ExpectedScore(links, w) /\ NoLater(w, q)) }

\* C13: findInventoryPage returns the URL of the matched (link, rule) pair with the
\* highest confidence, the first in link traversal order (then rule order) among the
\* pairs with that confidence; it returns null exactly when no pair of a scored anchor
\* and a rule matched (an anchor whose href is empty or does not resolve is not
\* scored; a failed fetch has no anchors).
C13_BestCandidate ==
  (Answered /\ probe.fn = "findInventoryPage") =>
     LET links == probe.fetch.links
         pairs == IF probe.fetch.ok THEN MatchedPairs(links) ELSE {}
     IN /\ answer[1].url = NoUrl <=> pairs = {}
        /\ pairs # {} =>
             /\ Cardinality(Winners(links)) = 1
             /\ \A w \in Winners(links) :
                   answer[1].url = ResolvedUrl(links[w[1]], probe.baseUrl)

\* C13 witness: two anchors with different URLs tie at the highest score and the
\* URL of the first one was returned
C13_Witness ==
  /\ Answered /\ probe.fn = "findInventoryPage" /\ probe.fetch.ok
  /\ LET links == probe.fetch.links
     IN \E w \in Winners(links) : \E q \in MatchedPairs(links) :
           /\ q[1] > w[1]
           /\ ExpectedScore(links, q) = ExpectedScore(links, w)
           /\ ResolvedUrl(links[q[1]], probe.baseUrl) # ResolvedUrl(links[w[1]], probe.baseUrl)
           /\ answer[1].url = ResolvedUrl(links[w[1]], probe.baseUrl)

-----------------------------------------------------------------------------
(* scrapeVehicleInventory applied to rendered inventory pages *)

\* most elements one container selector matches on a page
MaxContainers == 22

\* a container none of the field selectors finds anything in
EmptyCard == [els |-> << >>, throws |-> {}]

CardKinds == { FullCard, PriceOnlyCard, EmptyCard }

\* page.$$(selector): n elements, the first of one kind and the others of another
Cards(n, lead, rest) == [j \in 1..n |-> IF j = 1 THEN lead ELSE rest]

ContainerCounts == { 0, 1, MaxVehicles, MaxVehicles + 1, MaxContainers }

\* rendered pages whose first container selector matches some cards, whose last one
\* matches full cards, and on which the first selector may make page.$$ throw
InventoryPages ==
  { [ RenderedPage((".vehicle-card" :> Cards(n, lead, rest))
                   @@ (".listing" :> Cards(m, FullCard, FullCard)))
      EXCEPT !.throws = t ] :
      n \in ContainerCounts, lead \in CardKinds, rest \in CardKinds,
      m \in {0, MaxContainers}, t \in { {}, {".vehicle-card"} } }

ExtractionProbes ==
  { [fn |-> "scrapeVehicleInventory", render |-> page,
     dealerInfo |-> DealerRow(1, kind), inventoryUrl |-> kind.website \o "/new-vehicles"] :
      page \in {NavigationFailed} \cup InventoryPages,
      kind \in { k \in DealerKinds : k.website # "" } }

InitExtract ==
  /\ CrawlAtRest
  /\ probe \in ExtractionProbes
  /\ answer = <<>>

\* scrapeVehicleInventory(inventoryUrl, dealerInfo) returns its vehicles
ScrapeVehicleInventoryReturns ==
  /\ probe.fn = "scrapeVehicleInventory"
  /\ answer = <<>>
  /\ answer' = << ScrapeVehicleInventory(probe.render, probe.dealerInfo, probe.inventoryUrl) >>
  /\ UNCHANGED <<probe, crawlVars>>

NextExtract == ScrapeVehicleInventoryReturns

SpecExtract == InitExtract /\ [][NextExtract]_vars

Extracted == Answered /\ probe.fn = "scrapeVehicleInventory"

\* the containers of a rendered page, of every container selector page.$$ answers for
PageContainers(page) ==
  UNION { { page.containers[sel][j] : j \in 1..Len(page.containers[sel]) } :
            sel \in SelectorSet \ page.throws }

\* C14: one call of scrapeVehicleInventory returns at most 20 vehicle records,
\* however many elements the container selectors match and however many container
\* selectors are tried before one yields a record.
C14_AtMostTwenty == Extracted => Len(answer[1]) <= 20

\* C14 witness: the first container selector matched more than 20 elements and gave no
\* record, the last one matched more than 20 and the call returned exactly 20 records
C14_Witness ==
  /\ Extracted /\ probe.render.ok
  /\ ".vehicle-card" \notin probe.render.throws
  /\ Len(probe.render.containers[".vehicle-card"]) > 20
  /\ \A j \in 1..Len(probe.render.containers[".vehicle-card"]) :
        ~Retained(ExtractVehicleData(probe.render.containers[".vehicle-card"][j],
                                     probe.dealerInfo, probe.inventoryUrl))
  /\ Len(probe.render.containers[".listing"]) > 20
  /\ Len(answer[1]) = 20

\* a container whose field selectors find a price and neither a make nor a model
YieldsOnlyPrice(container) ==
  /\ FieldValue(container, "make", 1) = ""
  /\ FieldValue(container, "model", 1) = ""
  /\ FieldValue(container, "price", 1) # ""

\* the page rendered, and all it has are containers that yield only a price
OnlyPricePage ==
  /\ Extracted /\ probe.render.ok
  /\ PageContainers(probe.render) # {}
  /\ \A c \in PageContainers(probe.render) : YieldsOnlyPrice(c)

\* C15 as the specification states it: a container that yields only a price gives no
\* record, for every dealer, one with a non-empty brand included.
C15_Original == OnlyPricePage => answer[1] = <<>>

\* C15 amended: every returned record has a non-empty make or model, make being taken
\* from the dealer's brand when the container gave none; so a container that yields
\* only a price gives no record when the dealer's brand is empty, and gives a record
\* whose make is the dealer's brand when it is not.
C15_Retention ==
  /\ Extracted =>
       \A j \in 1..Len(answer[1]) : answer[1][j].make # "" \/ answer[1][j].model # ""
  /\ OnlyPricePage =>
       IF probe.dealerInfo.brand = ""
       THEN answer[1] = <<>>
       ELSE /\ answer[1] # <<>>
            /\ \A j \in 1..Len(answer[1]) :
                  /\ answer[1][j].make = probe.dealerInfo.brand
                  /\ answer[1][j].model = ""
                  /\ answer[1][j].price # ""

\* C15 witness: a page of price-only containers gave records to a dealer with a brand
C15_Witness ==
  /\ OnlyPricePage
  /\ probe.dealerInfo.brand # ""
  /\ answer[1] # <<>>
  /\ answer[1][1].model = ""

\* a page of price-only containers gave no record to a dealer without a brand
C15_NoBrand == OnlyPricePage /\ probe.dealerInfo.brand = "" /\ answer[1] = <<>>

-----------------------------------------------------------------------------
(* Catalog reader: parseCSVLine and GET /stock, applied to a catalog just written *)

\* s.replace(/^"|"$/g, '')
StripEdgeQuotes(s) ==
  LET a == IF StartsWith(s, "\"") THEN Tail(s) ELSE s
  IN IF a # "" /\ Char(a, Len(a)) = "\"" THEN SubSeq(a, 1, Len(a) - 1) ELSE a

\* the value of inQuotes when the loop of parseCSVLine reaches character k: every
\* double quote before k has toggled it
InQuotesAt(line, k) ==
  Cardinality({ q \in 1..(k - 1) : Char(line, q) = "\"" }) % 2 = 1

\* the characters at which the loop pushes a value: commas read with inQuotes false
Separators(line) ==
  { k \in 1..Len(line) : Char(line, k) = "," /\ ~InQuotesAt(line, k) }

\* what the loop appends to current between two pushes: every character but the
\* double quotes
RECURSIVE Current(_)
Current(piece) ==
  IF piece = "" THEN ""
  ELSE (IF Char(piece, 1) = "\"" THEN "" ELSE Char(piece, 1)) \o Current(Tail(piece))

\* the values pushed from character `from` on, seps being the separators still ahead
RECURSIVE ValuesFrom(_, _, _)
ValuesFrom(line, from, seps) ==
  IF seps = {}
  THEN << StripEdgeQuotes(Trim(Current(SubSeq(line, from, Len(line))))) >>
  ELSE LET k == CHOOSE b \in seps : \A c \in seps : b <= c
       IN << StripEdgeQuotes(Trim(Current(SubSeq(line, from, k - 1)))) >>
          \o ValuesFrom(line, k + 1, seps \ {k})

ParseCSVLine(line) == ValuesFrom(line, 1, Separators(line))

\* content.split('\n'): the piece before the first line break, then the split of the rest
RECURSIVE SplitLines(_)
SplitLines(content) ==
  LET breaks == { k \in 1..Len(content) : Char(content, k) = "\n" }
  IN IF breaks = {} THEN <<content>>
     ELSE LET k == CHOOSE b \in breaks : \A c \in breaks : b <= c
          IN <<SubSeq(content, 1, k - 1)>> \o SplitLines(SubSeq(content, k + 1, Len(content)))

\* .filter(line => line.trim())
NonBlankLines(lines) == SelectSeq(lines, LAMBDA line : Trim(line) # "")

\* the loop of GET /stock over the lines past the header, from line i on
RECURSIVE StockVehicles(_, _)
StockVehicles(lines, i) ==
  IF i > Len(lines) THEN <<>>
  ELSE LET values == ParseCSVLine(lines[i])
       IN (IF Len(values) >= 11
           THEN << [dealer |-> values[1], brand |-> values[2], city |-> values[3],
                    make |-> values[4], model |-> values[5], year |-> values[6],
                    trim |-> values[7], price |-> values[8], stock |-> values[9],
                    scrapedAt |-> values[10], sourceUrl |-> values[11]] >>
           ELSE <<>>) \o StockVehicles(lines, i + 1)

\* the vehicles of the response of GET /stock for a stock.csv with this content
ReadStock(content) == StockVehicles(NonBlankLines(SplitLines(content)), 2)

\* most records of a catalog written and read back
MaxCatalog == 2

\* Model and Stock texts: plain, with a comma, with double quotes, with a line break
\* (cleanText leaves a double quote in a stock text)
CatalogModels == { "Civic", "Civic, LX", "Civic \"Si\"", "Civic\nLX" }
CatalogStocks == { "A1", "12\"A" }

CatalogVehicles ==
  { [dealer |-> "Dealer 1", brand |-> "Honda", city |-> "Whitby", make |-> "Honda",
     model |-> m, year |-> "2024", trim |-> "", price |-> "25,000", stock |-> s,
     scrapedAt |-> Now, sourceUrl |-> "https://y.test/new-vehicles"] :
      m \in CatalogModels, s \in CatalogStocks }

CatalogProbes ==
  UNION { { [fn |-> "saveVehiclesToCSV", vehicles |-> vs] : vs \in [1..n -> CatalogVehicles] }
          : n \in 0..MaxCatalog }

InitCatalog ==
  /\ CrawlAtRest
  /\ probe \in CatalogProbes
  /\ answer = <<>>

\* saveVehiclesToCSV(vehicles) writes stock.csv
SaveVehiclesToCSV ==
  /\ probe.fn = "saveVehiclesToCSV"
  /\ stock = NoFile
  /\ stock' = WriteFile(stock, CsvContent(probe.vehicles))
  /\ UNCHANGED <<probe, answer, dealersDatabase, scrapingInProgress, lastScrapeResults, run,
                 openBrowsers, lastResponse>>

\* GET /stock answers with the vehicles it reads from stock.csv
GetStock ==
  /\ probe.fn = "saveVehiclesToCSV"
  /\ stock # NoFile
  /\ answer = <<>>
  /\ answer' = << ReadStock(stock) >>
  /\ UNCHANGED <<probe, crawlVars>>

NextCatalog == SaveVehiclesToCSV \/ GetStock

SpecCatalog == InitCatalog /\ [][NextCatalog]_vars

\* C16 as the specification states it: the vehicles GET /stock reads back from a
\* catalog saveVehiclesToCSV wrote are the vehicles written, as many and with every
\* field equal, commas, double quotes and line breaks in a field included.
C16_RoundTrip ==
  (Answered /\ probe.fn = "saveVehiclesToCSV") => answer[1] = probe.vehicles

-----------------------------------------------------------------------------
(* Properties of the crawl: browser sessions, the cap, status reads *)

\* C17: the browser scrapeVehicleInventory launched is closed in the step in which the
\* call returns, however it returns; so at most one browser is open in any state, one
\* is open only while a run is between the launch and the return of that call, and
\* none is open when a run awaits the discovery or the launch of a dealer, is paused,
\* saves, or has ended.
C17_SessionClosed ==
  /\ openBrowsers <= 1
  /\ openBrowsers = Cardinality({ r \in Slots : run[r].browser })
  /\ \A r \in Slots :
        /\ run[r].browser => run[r].pc = "render"
        /\ run[r].pc \in {"discover", "launch", "delay", "save", "done", "failed"}
             => openBrowsers = 0

\* C17 witness: a call whose container selector threw has returned and a later dealer
\* of the same crawl is being discovered, with no browser open
C17_Witness ==
  /\ openBrowsers = 0
  /\ \E r \in Slots :
        /\ run[r].pc = "discover"
        /\ run[r].i > 1
        /\ lastScrapeResults[run[r].i - 1].status = "success"
        /\ run[r].lastCall = [what |-> "selector_failed", idx |-> run[r].i - 1]

\* the dealers a start request with this cap is to process, as the specification has it
FirstDealers(database, maxDealers) ==
  IF maxDealers.given
  THEN SubSeq(database, 1, IF maxDealers.n <= Len(database) THEN maxDealers.n ELSE Len(database))
  ELSE database

\* C18 as the specification states it: a start request that is accepted begins a crawl
\* of exactly the first min(n, |roster|) dealers of the roster, in roster order, when
\* it carries the cap maxDealers = n, for every n from 0 on, and of the whole roster
\* when it carries no cap.
C18_CapRespected ==
  [][\A maxDealers \in Caps :
        (~scrapingInProgress /\ Start(maxDealers)) =>
           \E r \in Slots :
              /\ run'[r].pc # "idle"
              /\ run'[r].dealersToScrape = FirstDealers(dealersDatabase, maxDealers)]_vars

\* the outcomes a run has recorded so far
Recorded(r) == IF run[r].pc = "delay" THEN run[r].i ELSE run[r].i - 1

-----------------------------------------------------------------------------
(* extractVehicleData applied to single containers *)

\* texts of the element the price selectors find; "" is no element
PriceTexts == { "", "$25,000.00", "MSRP: $31,495", "25000", " Call for price " }

\* texts of the element the year selectors find; "" is no element
YearTexts == { "", "New 2024", "1999 Classic Edition", "Model year 2025 ", "2019/2020" }

\* texts of the element the make selectors find; "" is no element
MakeTexts == { "", "Honda" }

\* a container in which the first selector of each of these fields finds an element
\* with the given text, or no selector finds one
FieldCard(make, year, price) ==
  LET texts == (".make" :> make) @@ (".year" :> year) @@ (".price" :> price)
  IN [els |-> [sel \in { s \in DOMAIN texts : texts[s] # "" } |-> Element(texts[sel])],
      throws |-> {}]

FieldProbes ==
  { [fn |-> "extractVehicleData", container |-> FieldCard(make, year, price),
     raw |-> [make |-> make, year |-> year, price |-> price],
     dealerInfo |-> DealerRow(1, kind), sourceUrl |-> kind.website \o "/new-vehicles"] :
      make \in MakeTexts, year \in YearTexts, price \in PriceTexts,
      kind \in { k \in DealerKinds : k.website # "" } }

InitFields ==
  /\ CrawlAtRest
  /\ probe \in FieldProbes
  /\ answer = <<>>

\* extractVehicleData(page, container, dealerInfo, sourceUrl) returns its vehicle
ExtractVehicleDataReturns ==
  /\ probe.fn = "extractVehicleData"
  /\ answer = <<>>
  /\ answer' = << ExtractVehicleData(probe.container, probe.dealerInfo, probe.sourceUrl) >>
  /\ UNCHANGED <<probe, crawlVars>>

NextFields == ExtractVehicleDataReturns

SpecFields == InitFields /\ [][NextFields]_vars

\* C20 as the specification states it: the price of the record is the text of the
\* price element with every character other than a digit, a comma, a period or '$'
\* removed; the periods and '$' of the text are in the record's price.
C20_PriceKept ==
  (Answered /\ probe.fn = "extractVehicleData") =>
     answer[1].price = KeepChars(probe.raw.price, Digits \cup {",", ".", "$"})

\* C21 as the specification states it: the year of the record is the first 20xx of
\* the text of the year element when it has one, and otherwise that text, with its
\* whitespace collapsed and trimmed, cut to 10 characters: not empty for a text that
\* is not.
C21_YearFallback ==
  (Answered /\ probe.fn = "extractVehicleData") =>
     LET text == Trim(CollapseWhitespace(probe.raw.year))
     IN answer[1].year = IF MatchYear(text) # "" THEN MatchYear(text)
                         ELSE Substring0(text, 10)

-----------------------------------------------------------------------------
(* scrapeVehicleInventory applied to pages of two sibling containers whose      *)
(* field selectors miss, throw, or find blank, placeholder or usable text       *)

\* what container.$('.make') and the element's text may be
FirstLookups == { "miss", "throws", "blank", "placeholder", "inner", "hit" }

LookupElement(kind) ==
  CASE kind = "blank"       -> Element("  ")
    [] kind = "placeholder" -> Element(" undefined ")
    [] kind = "inner"       -> [textContent |-> " ", innerText |-> "Honda "]
    [] OTHER                -> Element("Honda")

\* a container: .make as said by first; .vehicle-make and h2 with a usable text or
\* absent; .model with a usable text, or throwing; a price
CascadeCard(first, second, heading, modelThrows) ==
  [els |-> [sel \in ({".price"}
                     \cup (IF first \in {"miss", "throws"} THEN {} ELSE {".make"})
                     \cup (IF second THEN {".vehicle-make"} ELSE {})
                     \cup (IF heading THEN {"h2"} ELSE {})
                     \cup (IF modelThrows THEN {} ELSE {".model"})) |->
              CASE sel = ".make"         -> LookupElement(first)
                [] sel = ".vehicle-make" -> Element("Acura")
                [] sel = "h2"            -> Element("2024 Special!")
                [] sel = ".model"        -> Element("Civic")
                [] OTHER                 -> Element("$9,999")],
   throws |-> (IF first = "throws" THEN {".make"} ELSE {})
              \cup (IF modelThrows THEN {".model"} ELSE {})]

CascadeCards ==
  { CascadeCard(first, second, heading, modelThrows) :
      first \in FirstLookups, second \in BOOLEAN, heading \in BOOLEAN,
      modelThrows \in BOOLEAN }

CascadeProbes ==
  { [fn |-> "scrapeVehicleInventory",
     render |-> RenderedPage((".vehicle-card" :> << a, b >>)),
     dealerInfo |-> DealerRow(1, kind), inventoryUrl |-> kind.website \o "/new-vehicles"] :
      a \in CascadeCards, b \in CascadeCards,
      kind \in { k \in DealerKinds : k.website # "" } }

InitCascade ==
  /\ CrawlAtRest
  /\ probe \in CascadeProbes
  /\ answer = <<>>

FieldNameSet == { FieldNames[k] : k \in 1..Len(FieldNames) }

\* scrapeVehicleInventory returns its vehicles; queried are the selectors
\* extractVehicleData called container.$ with, by container and by field
CascadeReturns ==
  /\ probe.fn = "scrapeVehicleInventory"
  /\ answer = <<>>
  /\ LET cards == probe.render.containers[".vehicle-card"]
     IN answer' = << [vehicles |-> ScrapeVehicleInventory(probe.render, probe.dealerInfo,
                                                           probe.inventoryUrl),
                      queried |-> [j \in 1..Len(cards) |->
                                     [f \in FieldNameSet |->
                                        FieldLookup(cards[j], f, 1).queried]]] >>
  /\ UNCHANGED <<probe, crawlVars>>

NextCascade == CascadeReturns

SpecCascade == InitCascade /\ [][NextCascade]_vars

\* selector k of a field finds, in this container, an element with usable text
Usable(container, field, k) ==
  LET selector == FieldSelectors(field)[k]
  IN /\ selector \notin container.throws
     /\ selector \in DOMAIN container.els
     /\ ElementText(container.els[selector]) \notin {"", "undefined"}

\* the place of the first usable selector of a field, 0 when there is none
FirstUsable(container, field) ==
  LET hits == { k \in 1..Len(FieldSelectors(field)) : Usable(container, field, k) }
  IN IF hits = {} THEN 0 ELSE CHOOSE k \in hits : \A h \in hits : k <= h

\* the cleaned text of the first usable selector of a field, "" when there is none
FirstUsableValue(container, field) ==
  LET k == FirstUsable(container, field)
  IN IF k = 0 THEN ""
     ELSE CleanText(ElementText(container.els[FieldSelectors(field)[k]]), field)

\* the record a container gives when every field is taken from its first usable
\* selector, whatever the other selectors and fields do
CascadeRecord(container, dealerInfo, sourceUrl) ==
  LET make == FirstUsableValue(container, "make")
      year == FirstUsableValue(container, "year")
      price == FirstUsableValue(container, "price")
  IN [dealer |-> dealerInfo.name, brand |-> dealerInfo.brand, city |-> dealerInfo.city,
      make |-> IF make = "" THEN dealerInfo.brand ELSE make,
      model |-> FirstUsableValue(container, "model"),
      year |-> MatchYear(year),
      trim |-> FirstUsableValue(container, "trim"),
      price |-> KeepChars(price, Digits \cup {","}),
      stock |-> FirstUsableValue(container, "stock"),
      scrapedAt |-> Now, sourceUrl |-> sourceUrl]

CascadeDone == Answered /\ probe \in CascadeProbes

\* C22: for every container and every field, extractVehicleData queries the field's
\* selectors in order up to the first one whose element has non-empty text other than
\* "undefined" and no further (all of them when there is none), and the field's value
\* is taken from that selector; a selector that throws or finds nothing only moves
\* the loop on: every other field of the container and every sibling container is
\* still extracted, so the call returns, in order, the record of each container that
\* has a make or a model.
C22_FieldCascade ==
  CascadeDone =>
     LET cards == probe.render.containers[".vehicle-card"]
         records == [j \in 1..Len(cards) |->
                       CascadeRecord(cards[j], probe.dealerInfo, probe.inventoryUrl)]
     IN /\ \A j \in 1..Len(cards) : \A f \in FieldNameSet :
              answer[1].queried[j][f] =
                 IF FirstUsable(cards[j], f) = 0 THEN FieldSelectors(f)
                 ELSE SubSeq(FieldSelectors(f), 1, FirstUsable(cards[j], f))
        /\ answer[1].vehicles =
              SelectSeq(records, LAMBDA v : v.make # "" \/ v.model # "")

\* C22 witness: in the first container .make threw and .model threw, .vehicle-make
\* and h2 both had usable text; its make was taken from .vehicle-make, h2 was not
\* queried, its price was extracted and its sibling gave a record too
C22_Witness ==
  /\ CascadeDone
  /\ LET card == probe.render.containers[".vehicle-card"][1]
     IN /\ {".make", ".model"} \subseteq card.throws
        /\ {".vehicle-make", "h2"} \subseteq DOMAIN card.els
  /\ answer[1].queried[1]["make"] = << ".make", ".vehicle-make" >>
  /\ Len(answer[1].vehicles) = 2
  /\ answer[1].vehicles[1].make = "Acura"
  /\ answer[1].vehicles[1].model = ""
  /\ answer[1].vehicles[1].price = "9,999"

-----------------------------------------------------------------------------
(* The container cascade, on the pages of SpecExtract *)

\* the records the first 20 containers of one container selector give
SelectorYield(sel) ==
  LET containers == probe.render.containers[sel]
  IN ContainerVehicles(containers,
                       IF Len(containers) <= 20 THEN Len(containers) ELSE 20, 1,
                       probe.dealerInfo, probe.inventoryUrl)

\* the places, in priority order, of the container selectors page.$$ answers for with
\* at least one element
Matching ==
  { s \in 1..Len(ContainerSelectors) :
      /\ ContainerSelectors[s] \notin probe.render.throws
      /\ Len(probe.render.containers[ContainerSelectors[s]]) > 0 }

\* those of them whose containers give at least one record
Yielding == { s \in Matching : SelectorYield(ContainerSelectors[s]) # <<>> }

Least(S) == CHOOSE s \in S : \A t \in S : s <= t

\* C23 as the specification states it: the records returned are those of the first
\* container selector in priority order that matches at least one element, and of no
\* selector after it.
C23_Original ==
  (Extracted /\ probe.render.ok) =>
     answer[1] = IF Matching = {} THEN <<>>
                 ELSE SelectorYield(ContainerSelectors[Least(Matching)])

\* C23 amended: the container selector adopted is the first one in priority order
\* that matches at least one element and whose containers give at least one record;
\* a selector that matches elements which give no record is passed over; every
\* record returned comes from the adopted selector's containers, no selector after
\* it gives any, and nothing is returned when no selector gives a record.
C23_ContainerCascade ==
  (Extracted /\ probe.render.ok) =>
     /\ answer[1] = IF Yielding = {} THEN <<>>
                    ELSE SelectorYield(ContainerSelectors[Least(Yielding)])
     /\ answer[1] # <<>> => Yielding # {}

\* C23 witness: the first selector matched elements that gave no record and the
\* records returned are those of a later selector
C23_Witness ==
  /\ Extracted /\ probe.render.ok
  /\ Matching # {} /\ Yielding # {}
  /\ Least(Matching) < Least(Yielding)
  /\ answer[1] = SelectorYield(ContainerSelectors[Least(Yielding)])
  /\ answer[1] # <<>>

-----------------------------------------------------------------------------
(* Properties of the crawl: a start request that is turned down *)

\* the state a start request may act on: the flag, the outcome list, every
\* invocation's locals (the vehicles collected among them), the catalog, the browser
\* sessions and the roster
crawlState ==
  <<scrapingInProgress, lastScrapeResults, run, stock, openBrowsers, dealersDatabase>>

\* a step in which invocation r of scrapeAllDealers begins
Begins(r) == run[r].pc \notin Active /\ run'[r] # run[r]

\* C24: a start request handled while a crawl is running changes nothing, neither
\* inProgress nor the running crawl's outcome list nor the vehicles it has collected
\* nor the catalog, and it is not queued: an invocation begins only in the step of a
\* start request handled while no crawl is running, so the step that ends the running
\* crawl, and every step after it that is not a new start request, begins none.
C24_RejectedStart ==
  /\ [][\A maxDealers \in Caps :
          (scrapingInProgress /\ Start(maxDealers)) => UNCHANGED crawlState]_vars
  /\ [][\A r \in Slots :
          Begins(r) => /\ ~scrapingInProgress
                       /\ lastResponse' = StartedResponse
                       /\ \E maxDealers \in Caps : Start(maxDealers)]_vars

\* C24 witness: a request was turned down while a crawl was running, that crawl has
\* ended with a vehicle collected, and no other invocation has begun
C24_Witness ==
  /\ lastResponse = RejectedResponse
  /\ Running = {} /\ ~scrapingInProgress
  /\ Cardinality(Begun) = 1
  /\ \E r \in Begun : run[r].pc = "done" /\ run[r].allVehicles # <<>>

-----------------------------------------------------------------------------
(* Properties of the crawl: the summary *)

\* the sum of the vehicle counts of the success outcomes
RECURSIVE SuccessCountSum(_)
SuccessCountSum(results) ==
  IF results = <<>> THEN 0
  ELSE (IF Head(results).status = "success" THEN Head(results).count ELSE 0)
       + SuccessCountSum(Tail(results))

Summaries == { run[r].summary[1] : r \in { q \in Slots : run[q].summary # <<>> } }

\* C25: in every summary a crawl has built, successCount is the number of success
\* outcomes, failCount the number of no_website, no_inventory_page and error
\* outcomes, successCount + failCount = totalDealers = the length of the outcome
\* list, and totalVehicles is the sum of the counts of the success outcomes.
C25_SummaryConsistency ==
  \A s \in Summaries :
     /\ s.successCount = CountStatus(s.results, {"success"})
     /\ s.failCount = CountStatus(s.results, {"no_website", "no_inventory_page", "error"})
     /\ s.successCount + s.failCount = s.totalDealers
     /\ s.totalDealers = Len(s.results)
     /\ s.totalVehicles = SuccessCountSum(s.results)

\* C25 witness: a summary that counts a success outcome with vehicles and a failure
\* that is a caught error
C25_Witness ==
  \E s \in Summaries :
     /\ s.totalVehicles > 0
     /\ CountStatus(s.results, {"error"}) > 0
     /\ s.failCount > 0
     /\ s.successCount > 0

====
